---- MODULE Spec2Model ----
(***************************************************************************)
(* A model of the Go package paths (src/paths.go, the Path-struct          *)
(* revision, lines 341-762): a Grid of Cells, the search Grid.GetPath and  *)
(* the cursor operations of Path.                                          *)
(*                                                                         *)
(* A *Cell is modelled by its position <<x, y>>: NewGrid creates one Cell  *)
(* per position and the search compares Cell pointers only.  The nil       *)
(* pointer is NilCell.  Data[y+1][x+1] is the Cell that m.Data[y][x]       *)
(* points to (TLA+ sequences start at 1).                                  *)
(***************************************************************************)
EXTENDS Integers, Sequences, FiniteSets, TLC

(***************************************************************************)
(* Bounds of the model.                                                    *)
(***************************************************************************)
\* the largest width and height of a grid with edited cells
MaxDim == 3
\* the most cells of a grid with edited cells
MaxArea == 6
\* the most cells the host has made non-walkable
MaxWalls == 3
\* the most cells whose Cost the host has changed from the default
MaxCostly == 1
\* the largest Cost the host has given a cell (the smallest is 0)
MaxCost == 4
\* the largest width and height of a grid the host edits between calls
HostDim == 2
\* the most cells of such a grid
HostArea == 4
\* the most cells non-walkable at a time on such a grid
HostWalls == 1
\* the largest Cost the host gives a cell of such a grid (the smallest is 1)
HostCost == 2
\* the largest width and height given to NewGrid for the calls of Get (the
\* smallest is 0), and the largest coordinate given to Get (the smallest is -1)
GetDim == 4
\* the largest width and height of a grid with no edited cell
UniformDim == 3
\* the most cells of such a grid
UniformArea == 9
\* the width and height of the large grid with no edited cell
ExampleDim == 5

VARIABLES
    Data,          \* Grid.Data: the rows of Cells
    pc,            \* "idle" | "search" (inside GetPath's loop) | "done" | "panic"
    start,         \* GetPath's arguments
    dest,
    diagonals,
    openNodes,     \* GetPath's locals
    checkedNodes,
    path,          \* the Path GetPath builds and returns: [Cells, CurrentIndex]
    ret,           \* what the last cursor operation returned
    stableSort,    \* the build's sort.Slice keeps equal elements in order
    wallsBlockDiagonals,  \* GetPathFromCells' fourth argument
    otherPath,     \* the Path of an earlier call that the host still holds
    otherCall,     \* the call that returned otherPath: its arguments and grid
    same,          \* what the last Same call returned
    totalCost      \* what the last TotalCost call returned

vars == <<Data, pc, start, dest, diagonals, openNodes, checkedNodes, path, ret,
          stableSort, wallsBlockDiagonals, otherPath, otherCall, same, totalCost>>

\* what the host holds besides the grid and the Path of its last call
hostVars == <<otherPath, otherCall, same, totalCost>>

NilCell == <<>>

(***************************************************************************)
(* Grid                                                                    *)
(***************************************************************************)
\* &Cell{x, y, 1, true, ' '}
NewCell(x, y) == [X |-> x, Y |-> y, Cost |-> 1, Walkable |-> TRUE, Character |-> " "]

NewGrid(w, h) == [y \in 1..h |-> [x \in 1..w |-> NewCell(x - 1, y - 1)]]

Height(data) == Len(data)

Width(data) == Len(data[1])

Get(data, x, y) ==
    IF x < 0 \/ y < 0 \/ x >= Width(data) \/ y >= Height(data)
    THEN NilCell
    ELSE <<data[y + 1][x + 1].X, data[y + 1][x + 1].Y>>

\* the Cell a non-nil pointer points to
Deref(data, c) == data[c[2] + 1][c[1] + 1]

\* every *Cell of the grid
Cells(data) == {<<x, y>> : x \in 0..(Width(data) - 1), y \in 0..(Height(data) - 1)}

\* the host's edits: cell.Walkable = false, cell.Cost = n
EditCells(data, walls, costs) ==
    [y \in 1..Height(data) |-> [x \in 1..Width(data) |->
        [data[y][x] EXCEPT
            !.Walkable = IF <<x - 1, y - 1>> \in walls THEN FALSE ELSE @,
            !.Cost = IF <<x - 1, y - 1>> \in DOMAIN costs
                     THEN costs[<<x - 1, y - 1>>] ELSE @]]]

(***************************************************************************)
(* Path                                                                    *)
(***************************************************************************)
\* &Path{}
EmptyPath == [Cells |-> <<>>, CurrentIndex |-> 0]

Valid(p) == Len(p.Cells) > 0

RECURSIVE SumCost(_, _, _)
SumCost(data, cells, i) ==
    IF i > Len(cells) THEN 0
    ELSE Deref(data, cells[i]).Cost + SumCost(data, cells, i + 1)

\* mutant: the loop of TotalCost ranges over p.Cells[1:] and leaves out the
\* cell the Path starts on
TotalCostButFirst(data, p) == SumCost(data, p.Cells, 2)

\* func (p *Path) TotalCost() int
TotalCost(data, p) == SumCost(data, p.Cells, 1)

(***************************************************************************)
(* Grid.GetPath                                                            *)
(***************************************************************************)
\* &Node{Cell, Parent, Cost}; a nil Parent is <<>>, a non-nil one <<node>>
Node(cell, parent, cost) == [Cell |-> cell, Parent |-> parent, Cost |-> cost]

\* mutant: the root node is made with Cost 0
RootNodeNoCost(data, d) == Node(d, <<>>, 0)

RootNode(data, d) == Node(d, <<>>, Deref(data, d).Cost)

\* for _, c := range checkedNodes { if cell == c { return true } }
hasBeenAdded(checked, cell) == cell \in checked

\* mutant: the search begins without looking at dest.Walkable
DestNeverChecked(data, d) == FALSE

\* if !dest.Walkable { return path }
DestNotWalkable(data, d) == ~Deref(data, d).Walkable

\* mutant: the root node is not compared with start
ReachedStartNotRoot(node, s) == node.Cell = s /\ node.Parent # <<>>

\* if node.Cell == start
ReachedStart(node, s) == node.Cell = s

\* mutant: the walk puts each cell before the ones collected so far
RECURSIVE ParentChainBackwards(_)
ParentChainBackwards(t) ==
    (IF t.Parent = <<>> THEN <<>> ELSE ParentChainBackwards(t.Parent[1])) \o <<t.Cell>>

\* mutant: the walk appends the cell of the node without Parent once in the
\* loop and once more after it
RECURSIVE ParentChainRootTwice(_)
ParentChainRootTwice(t) ==
    <<t.Cell>> \o (IF t.Parent = <<>> THEN <<t.Cell>> ELSE ParentChainRootTwice(t.Parent[1]))

\* the walk up the Parent pointers that fills path.Cells
RECURSIVE ParentChain(_)
ParentChain(t) ==
    <<t.Cell>> \o (IF t.Parent = <<>> THEN <<>> ELSE ParentChain(t.Parent[1]))

\* the neighbour offsets in the order the code visits them, each with the
\* bounds test the code makes on node.Cell before it calls Get
OrthogonalSteps == << <<-1, 0>>, <<1, 0>>, <<0, -1>>, <<0, 1>> >>

DiagonalSteps == << <<-1, -1>>, <<1, -1>>, <<-1, 1>>, <<1, 1>> >>

InBounds(data, cell, d) ==
    /\ (d[1] < 0 => cell[1] > 0)
    /\ (d[1] > 0 => cell[1] < Width(data) - 1)
    /\ (d[2] < 0 => cell[2] > 0)
    /\ (d[2] > 0 => cell[2] < Height(data) - 1)

\* mutant: the block appends the neighbour without testing n.Cell.Walkable
VisitAnyCell(data, node, d, st) ==
    IF ~InBounds(data, node.Cell, d) THEN st
    ELSE LET c == Get(data, node.Cell[1] + d[1], node.Cell[2] + d[2])
             n == Node(c, <<node>>, Deref(data, c).Cost + node.Cost)
         IN IF ~hasBeenAdded(st.checked, n.Cell)
            THEN [open |-> Append(st.open, n), checked |-> st.checked \cup {n.Cell}]
            ELSE st

\* mutant: the diagonal blocks add 1 to the Cost of the node they make
VisitDiagonalPenalty(data, node, d, st) ==
    IF ~InBounds(data, node.Cell, d) THEN st
    ELSE LET c == Get(data, node.Cell[1] + d[1], node.Cell[2] + d[2])
             n == Node(c, <<node>>, Deref(data, c).Cost + node.Cost
                                        + (IF d[1] # 0 /\ d[2] # 0 THEN 1 ELSE 0))
         IN IF Deref(data, n.Cell).Walkable /\ ~hasBeenAdded(st.checked, n.Cell)
            THEN [open |-> Append(st.open, n), checked |-> st.checked \cup {n.Cell}]
            ELSE st

\* one "if in bounds { c := m.Get(..); n := &Node{..}; if walkable and not
\* added { append; append } }" block; st is [open, checked]
Visit(data, node, d, st) ==
    IF ~InBounds(data, node.Cell, d) THEN st
    ELSE LET c == Get(data, node.Cell[1] + d[1], node.Cell[2] + d[2])
             n == Node(c, <<node>>, Deref(data, c).Cost + node.Cost)
         IN IF Deref(data, n.Cell).Walkable /\ ~hasBeenAdded(st.checked, n.Cell)
            THEN [open |-> Append(st.open, n), checked |-> st.checked \cup {n.Cell}]
            ELSE st

RECURSIVE VisitAll(_, _, _, _, _)
VisitAll(data, node, steps, i, st) ==
    IF i > Len(steps) THEN st
    ELSE VisitAll(data, node, steps, i + 1, Visit(data, node, steps[i], st))

\* mutant: the diagonal blocks are never run
ExpandNoDiagonals(data, node, diag, st) ==
    VisitAll(data, node, OrthogonalSteps, 1, st)

\* mutant: the diagonal blocks run whatever diagonals is
ExpandAllDiagonals(data, node, diag, st) ==
    VisitAll(data, node, DiagonalSteps, 1, VisitAll(data, node, OrthogonalSteps, 1, st))

\* the eight blocks of one iteration, the diagonal four under "if diagonals"
Expand(data, node, diag, st) ==
    LET orth == VisitAll(data, node, OrthogonalSteps, 1, st)
    IN IF diag THEN VisitAll(data, node, DiagonalSteps, 1, orth) ELSE orth

\* the position of a cell in row-major order; it orders equal-cost nodes below
CellKey(data, c) == c[2] * Width(data) + c[1]

NodeBefore(data, a, b) ==
    \/ a.Cost < b.Cost
    \/ a.Cost = b.Cost /\ CellKey(data, a.Cell) < CellKey(data, b.Cell)

RemoveAt(s, i) == SubSeq(s, 1, i - 1) \o SubSeq(s, i + 1, Len(s))

RECURSIVE SortTies(_, _)
SortTies(data, s) ==
    IF Len(s) = 0 THEN <<>>
    ELSE LET i == CHOOSE i \in 1..Len(s) :
                      \A j \in 1..Len(s) : j = i \/ ~NodeBefore(data, s[j], s[i])
         IN <<s[i]>> \o SortTies(data, RemoveAt(s, i))

\* a sort by Cost that keeps equal-cost nodes in the order they have in s
RECURSIVE InsertionSort(_)
InsertionSort(s) ==
    IF Len(s) = 0 THEN <<>>
    ELSE LET i == CHOOSE i \in 1..Len(s) :
                      /\ \A j \in 1..Len(s) : s[i].Cost <= s[j].Cost
                      /\ \A j \in 1..(i - 1) : s[j].Cost > s[i].Cost
         IN <<s[i]>> \o InsertionSort(RemoveAt(s, i))

\* mutant: the slice is left in the order of the appends
SortSliceUnsorted(data, s, stable) == {s}

\* mutant: less compares with > and the highest Cost comes first
SortSliceDescending(data, s, stable) ==
    LET a == InsertionSort(s)
    IN {[i \in 1..Len(a) |-> a[Len(a) + 1 - i]]}

\* mutant: the sort is of openNodes[1:], the first node stays where it is
SortSliceButFirst(data, s, stable) ==
    IF Len(s) = 0 THEN {<<>>}
    ELSE {<<s[1]>> \o InsertionSort(SubSeq(s, 2, Len(s)))}

\* sort.Slice(openNodes, Cost less): the results it may give.  sort.Slice is
\* not stable, so the order of equal-cost nodes is the sort's choice.  The
\* loop reads only openNodes[0] before it sorts the slice again, so the
\* results are told apart by their first node alone: any lowest-cost node
\* may come first, and the rest follow in cost order, ties by position.
\* A build whose sort.Slice happens to be stable gives one result.
SortSlice(data, s, stable) ==
    IF stable THEN {InsertionSort(s)}
    ELSE IF Len(s) = 0 THEN {<<>>}
    ELSE {<<s[i]>> \o SortTies(data, RemoveAt(s, i)) :
            i \in {k \in 1..Len(s) : \A j \in 1..Len(s) : s[k].Cost <= s[j].Cost}}

(***************************************************************************)
(* States and actions                                                      *)
(***************************************************************************)
\* the grids the host can have built from NewGrid(w, h) by editing cells
EditedGrids(w, h) ==
    { EditCells(NewGrid(w, h), walls, costs) :
        walls \in {ws \in SUBSET Cells(NewGrid(w, h)) : Cardinality(ws) <= MaxWalls},
        costs \in UNION {[cs -> 0..MaxCost] :
                    cs \in {s \in SUBSET Cells(NewGrid(w, h)) :
                                Cardinality(s) <= MaxCostly}} }

Dims == {d \in (1..MaxDim) \X (1..MaxDim) : d[1] * d[2] <= MaxArea}

Grids(dims) == UNION {EditedGrids(d[1], d[2]) : d \in dims}

\* no earlier call
NoCall == [start |-> NilCell, dest |-> NilCell, diagonals |-> FALSE, Data |-> <<>>]

Idle ==
    /\ pc = "idle"
    /\ start = NilCell
    /\ dest = NilCell
    /\ diagonals = FALSE
    /\ openNodes = <<>>
    /\ checkedNodes = {}
    /\ path = EmptyPath
    /\ ret = NilCell
    /\ wallsBlockDiagonals = FALSE
    /\ otherPath = EmptyPath
    /\ otherCall = NoCall
    /\ same = FALSE
    /\ totalCost = 0

Init ==
    /\ Data \in Grids(Dims)
    /\ stableSort = FALSE
    /\ Idle

\* mutant: checkedNodes is not made anew by the call; the cells that an
\* earlier search claimed for the Path it returned are still in it
GetPathCallCarrying(s, d, diag) ==
    /\ pc = "idle"
    /\ start' = s
    /\ dest' = d
    /\ diagonals' = diag
    /\ openNodes' = <<RootNode(Data, d)>>
    /\ checkedNodes' = {otherPath.Cells[i] : i \in 1..Len(otherPath.Cells)}
    /\ path' = EmptyPath
    /\ ret' = NilCell
    /\ pc' = IF DestNotWalkable(Data, d) THEN "done" ELSE "search"
    /\ UNCHANGED <<Data, stableSort, wallsBlockDiagonals>>
    /\ UNCHANGED hostVars

\* GetPath up to its loop: lines 471-498
GetPathCall(s, d, diag) ==
    /\ pc = "idle"
    /\ start' = s
    /\ dest' = d
    /\ diagonals' = diag
    /\ openNodes' = <<RootNode(Data, d)>>
    /\ checkedNodes' = {}
    /\ path' = EmptyPath
    /\ ret' = NilCell
    /\ pc' = IF DestNotWalkable(Data, d) THEN "done" ELSE "search"
    /\ UNCHANGED <<Data, stableSort, wallsBlockDiagonals>>
    /\ UNCHANGED hostVars

\* mutant: the iteration writes the Character of the cell it pops
GetPathStepMarking ==
    /\ pc = "search"
    /\ IF Len(openNodes) = 0
       THEN /\ pc' = "done"
            /\ UNCHANGED <<Data, openNodes, checkedNodes, path>>
       ELSE LET node == openNodes[1]
                rest == Tail(openNodes)
            IN /\ Data' = [Data EXCEPT ![node.Cell[2] + 1][node.Cell[1] + 1].Character = "x"]
               /\ IF ReachedStart(node, start)
                  THEN /\ path' = [path EXCEPT !.Cells = ParentChain(node)]
                       /\ openNodes' = rest
                       /\ pc' = "done"
                       /\ UNCHANGED checkedNodes
                  ELSE \E st \in {Expand(Data, node, diagonals,
                                         [open |-> rest, checked |-> checkedNodes])} :
                          /\ openNodes' \in SortSlice(Data, st.open, stableSort)
                          /\ checkedNodes' = st.checked
                          /\ pc' = "search"
                          /\ UNCHANGED path
    /\ UNCHANGED <<start, dest, diagonals, ret, stableSort, wallsBlockDiagonals>>
    /\ UNCHANGED hostVars

\* mutant: the iteration reads openNodes[0] and leaves it in the slice
GetPathStepNoPop ==
    /\ pc = "search"
    /\ IF Len(openNodes) = 0
       THEN /\ pc' = "done"
            /\ UNCHANGED <<openNodes, checkedNodes, path>>
       ELSE LET node == openNodes[1]
                rest == openNodes
            IN IF ReachedStart(node, start)
               THEN /\ path' = [path EXCEPT !.Cells = ParentChain(node)]
                    /\ openNodes' = rest
                    /\ pc' = "done"
                    /\ UNCHANGED checkedNodes
               ELSE \E st \in {Expand(Data, node, diagonals,
                                      [open |-> rest, checked |-> checkedNodes])} :
                       /\ openNodes' \in SortSlice(Data, st.open, stableSort)
                       /\ checkedNodes' = st.checked
                       /\ pc' = "search"
                       /\ UNCHANGED path
    /\ UNCHANGED <<Data, start, dest, diagonals, ret, stableSort, wallsBlockDiagonals>>
    /\ UNCHANGED hostVars

\* one iteration of GetPath's loop: lines 500-608
GetPathStep ==
    /\ pc = "search"
    /\ IF Len(openNodes) = 0
       THEN /\ pc' = "done"
            /\ UNCHANGED <<openNodes, checkedNodes, path>>
       ELSE LET node == openNodes[1]
                rest == Tail(openNodes)
            IN IF ReachedStart(node, start)
               THEN /\ path' = [path EXCEPT !.Cells = ParentChain(node)]
                    /\ openNodes' = rest
                    /\ pc' = "done"
                    /\ UNCHANGED checkedNodes
               ELSE \E st \in {Expand(Data, node, diagonals,
                                      [open |-> rest, checked |-> checkedNodes])} :
                       /\ openNodes' \in SortSlice(Data, st.open, stableSort)
                       /\ checkedNodes' = st.checked
                       /\ pc' = "search"
                       /\ UNCHANGED path
    /\ UNCHANGED <<Data, start, dest, diagonals, ret, stableSort, wallsBlockDiagonals>>
    /\ UNCHANGED hostVars

\* the caller drops the Path it was given and the search's locals are gone
Release ==
    /\ pc = "done"
    /\ pc' = "idle"
    /\ start' = NilCell
    /\ dest' = NilCell
    /\ diagonals' = FALSE
    /\ openNodes' = <<>>
    /\ checkedNodes' = {}
    /\ path' = EmptyPath
    /\ ret' = NilCell
    /\ wallsBlockDiagonals' = FALSE
    /\ UNCHANGED <<Data, stableSort>>
    /\ UNCHANGED hostVars

Next ==
    \/ \E s \in Cells(Data), d \in Cells(Data), diag \in BOOLEAN : GetPathCall(s, d, diag)
    \/ GetPathStep
    \/ Release

Spec == Init /\ [][Next]_vars

\* grids as NewGrid leaves them: small ones under any order of equal-cost
\* nodes, and the large one under the order a stable sort gives
InitUniform ==
    /\ \/ /\ Data \in {NewGrid(d[1], d[2]) :
                        d \in {e \in (1..UniformDim) \X (1..UniformDim) :
                                  e[1] * e[2] <= UniformArea}}
          /\ stableSort = FALSE
       \/ /\ Data = NewGrid(ExampleDim, ExampleDim)
          /\ stableSort = TRUE
    /\ Idle

SpecUniform == InitUniform /\ [][Next]_vars

(***************************************************************************)
(* GetPathFromCells(start, dest, diagonals, wallsBlockDiagonals): the      *)
(* search of the later revision that paths_test.go calls.  Its code is not *)
(* in src/; it is modelled from the specification, section 4.2.  Costs are *)
(* kept in thousandths so that the diagonal penalty 0.414 is an integer.   *)
(***************************************************************************)
CostScale == 1000

DiagonalPenalty == 414

\* the grids with walls and no edited Cost
WallGrids(dims) ==
    UNION {{EditCells(NewGrid(d[1], d[2]), walls, <<>>) :
              walls \in {ws \in SUBSET Cells(NewGrid(d[1], d[2])) :
                            Cardinality(ws) <= MaxWalls}} : d \in dims}

FromCellsRootNode(data, d) == Node(d, <<>>, CostScale * Deref(data, d).Cost)

IsDiagonal(d) == d[1] # 0 /\ d[2] # 0

\* both orthogonal cells next to the diagonal neighbour are walkable
FlanksWalkable(data, cell, d) ==
    /\ Deref(data, <<cell[1] + d[1], cell[2]>>).Walkable
    /\ Deref(data, <<cell[1], cell[2] + d[2]>>).Walkable

\* mutant: a diagonal neighbour is enqueued whatever its flanks are
VisitFromCellsCutting(data, node, d, wbd, st) ==
    IF ~InBounds(data, node.Cell, d) THEN st
    ELSE LET c == Get(data, node.Cell[1] + d[1], node.Cell[2] + d[2])
             n == Node(c, <<node>>,
                       CostScale * Deref(data, c).Cost + node.Cost
                           + (IF IsDiagonal(d) THEN DiagonalPenalty ELSE 0))
         IN IF Deref(data, n.Cell).Walkable /\ ~hasBeenAdded(st.checked, n.Cell)
            THEN [open |-> Append(st.open, n), checked |-> st.checked \cup {n.Cell}]
            ELSE st

VisitFromCells(data, node, d, wbd, st) ==
    IF ~InBounds(data, node.Cell, d) THEN st
    ELSE LET c == Get(data, node.Cell[1] + d[1], node.Cell[2] + d[2])
             n == Node(c, <<node>>,
                       CostScale * Deref(data, c).Cost + node.Cost
                           + (IF IsDiagonal(d) THEN DiagonalPenalty ELSE 0))
         IN IF /\ Deref(data, n.Cell).Walkable
               /\ ~hasBeenAdded(st.checked, n.Cell)
               /\ (IsDiagonal(d) /\ wbd) => FlanksWalkable(data, node.Cell, d)
            THEN [open |-> Append(st.open, n), checked |-> st.checked \cup {n.Cell}]
            ELSE st

RECURSIVE VisitAllFromCells(_, _, _, _, _, _)
VisitAllFromCells(data, node, steps, i, wbd, st) ==
    IF i > Len(steps) THEN st
    ELSE VisitAllFromCells(data, node, steps, i + 1, wbd,
                           VisitFromCells(data, node, steps[i], wbd, st))

ExpandFromCells(data, node, diag, wbd, st) ==
    LET orth == VisitAllFromCells(data, node, OrthogonalSteps, 1, wbd, st)
    IN IF diag THEN VisitAllFromCells(data, node, DiagonalSteps, 1, wbd, orth) ELSE orth

GetPathFromCellsCall(s, d, diag, wbd) ==
    /\ pc = "idle"
    /\ start' = s
    /\ dest' = d
    /\ diagonals' = diag
    /\ wallsBlockDiagonals' = wbd
    /\ openNodes' = <<FromCellsRootNode(Data, d)>>
    /\ checkedNodes' = {}
    /\ path' = EmptyPath
    /\ ret' = NilCell
    /\ pc' = IF ~Deref(Data, s).Walkable \/ ~Deref(Data, d).Walkable
             THEN "done" ELSE "searchFromCells"
    /\ UNCHANGED <<Data, stableSort>>
    /\ UNCHANGED hostVars

GetPathFromCellsStep ==
    /\ pc = "searchFromCells"
    /\ IF Len(openNodes) = 0
       THEN /\ pc' = "done"
            /\ UNCHANGED <<openNodes, checkedNodes, path>>
       ELSE LET node == openNodes[1]
                rest == Tail(openNodes)
            IN IF node.Cell = start
               THEN /\ path' = [path EXCEPT !.Cells = ParentChain(node)]
                    /\ openNodes' = rest
                    /\ pc' = "done"
                    /\ UNCHANGED checkedNodes
               ELSE LET st == ExpandFromCells(Data, node, diagonals, wallsBlockDiagonals,
                                              [open |-> rest, checked |-> checkedNodes])
                    IN /\ openNodes' \in SortSlice(Data, st.open, stableSort)
                       /\ checkedNodes' = st.checked
                       /\ pc' = "searchFromCells"
                       /\ UNCHANGED path
    /\ UNCHANGED <<Data, start, dest, diagonals, ret, stableSort, wallsBlockDiagonals>>
    /\ UNCHANGED hostVars

InitFromCells ==
    /\ Data \in WallGrids(Dims)
    /\ stableSort = FALSE
    /\ Idle

NextFromCells ==
    \/ \E s \in Cells(Data), d \in Cells(Data), diag \in BOOLEAN, wbd \in BOOLEAN :
          GetPathFromCellsCall(s, d, diag, wbd)
    \/ GetPathFromCellsStep
    \/ Release

SpecFromCells == InitFromCells /\ [][NextFromCells]_vars

(***************************************************************************)
(* Path's cursor, called on the Path a GetPath call returned               *)
(***************************************************************************)
\* p.Cells[i] of Go: the cell at the 0-based index i; a run-time panic
\* (index out of range) when i is no index of the slice
IndexPanics(cells, i) == i < 0 \/ i >= Len(cells)

Index(cells, i) == cells[i + 1]

\* "return p.Cells[p.CurrentIndex]" with the cursor moved to i: the field is
\* written before the slice is indexed
ReturnCellAt(i) ==
    /\ path' = [path EXCEPT !.CurrentIndex = i]
    /\ IF IndexPanics(path.Cells, i)
       THEN pc' = "panic" /\ ret' = NilCell
       ELSE pc' = pc /\ ret' = Index(path.Cells, i)
    /\ UNCHANGED <<Data, start, dest, diagonals, openNodes, checkedNodes, stableSort,
                   wallsBlockDiagonals>>
    /\ UNCHANGED hostVars

\* func (p *Path) Current() *Cell
PathCurrent ==
    /\ pc = "done"
    /\ ReturnCellAt(path.CurrentIndex)

\* mutant: Next without the clamp to len(p.Cells) - 1
NextIndexUnclamped(p) == p.CurrentIndex + 1

\* p.CurrentIndex++ and the clamp to len(p.Cells) - 1
NextIndex(p) ==
    IF p.CurrentIndex + 1 >= Len(p.Cells) THEN Len(p.Cells) - 1 ELSE p.CurrentIndex + 1

\* mutant: Next returns the cell the cursor was on before it moves the cursor
PathNextReturnsCurrent ==
    /\ pc = "done"
    /\ path' = [path EXCEPT !.CurrentIndex = NextIndex(path)]
    /\ IF IndexPanics(path.Cells, path.CurrentIndex)
       THEN pc' = "panic" /\ ret' = NilCell
       ELSE pc' = pc /\ ret' = Index(path.Cells, path.CurrentIndex)
    /\ UNCHANGED <<Data, start, dest, diagonals, openNodes, checkedNodes, stableSort,
                   wallsBlockDiagonals>>
    /\ UNCHANGED hostVars

\* func (p *Path) Next() *Cell
PathNext ==
    /\ pc = "done"
    /\ ReturnCellAt(NextIndex(path))

\* mutant: Prev without the clamp to 0
PrevIndexUnclamped(p) == p.CurrentIndex - 1

\* p.CurrentIndex-- and the clamp to 0
PrevIndex(p) ==
    IF p.CurrentIndex - 1 < 0 THEN 0 ELSE p.CurrentIndex - 1

\* func (p *Path) Prev() *Cell
PathPrev ==
    /\ pc = "done"
    /\ ReturnCellAt(PrevIndex(path))

InitCursor ==
    /\ Data \in WallGrids(Dims)
    /\ stableSort = FALSE
    /\ Idle

NextCursor ==
    \/ \E s \in Cells(Data), d \in Cells(Data), diag \in BOOLEAN : GetPathCall(s, d, diag)
    \/ GetPathStep
    \/ Release
    \/ PathCurrent
    \/ PathNext
    \/ PathPrev

SpecCursor == InitCursor /\ [][NextCursor]_vars

(***************************************************************************)
(* Restart, Reverse, AtEnd and AtBeginning, with the cursor operations     *)
(***************************************************************************)
\* func (p *Path) Restart()
PathRestart ==
    /\ pc = "done"
    /\ path' = [path EXCEPT !.CurrentIndex = 0]
    /\ UNCHANGED <<Data, pc, start, dest, diagonals, openNodes, checkedNodes, ret,
                   stableSort, wallsBlockDiagonals>>
    /\ UNCHANGED hostVars

\* mutant: the loop of Reverse stops at c > 0 and leaves out p.Cells[0]
RECURSIVE ReverseCellsButFirst(_, _)
ReverseCellsButFirst(cells, c) ==
    IF c > 0 THEN <<Index(cells, c)>> \o ReverseCellsButFirst(cells, c - 1) ELSE <<>>

\* the slice np of Reverse: the loop appends p.Cells[c] for c from
\* len(p.Cells) - 1 down to 0
RECURSIVE ReverseCells(_, _)
ReverseCells(cells, c) ==
    IF c >= 0 THEN <<Index(cells, c)>> \o ReverseCells(cells, c - 1) ELSE <<>>

\* mutant: Reverse with its call of Restart not commented out
PathReverseRestarting ==
    /\ pc = "done"
    /\ path' = [Cells |-> ReverseCells(path.Cells, Len(path.Cells) - 1), CurrentIndex |-> 0]
    /\ UNCHANGED <<Data, pc, start, dest, diagonals, openNodes, checkedNodes, ret,
                   stableSort, wallsBlockDiagonals>>
    /\ UNCHANGED hostVars

\* func (p *Path) Reverse(): p.Cells = np; the call of Restart is commented out
PathReverse ==
    /\ pc = "done"
    /\ path' = [path EXCEPT !.Cells = ReverseCells(path.Cells, Len(path.Cells) - 1)]
    /\ UNCHANGED <<Data, pc, start, dest, diagonals, openNodes, checkedNodes, ret,
                   stableSort, wallsBlockDiagonals>>
    /\ UNCHANGED hostVars

AtEnd(p) == Valid(p) /\ p.CurrentIndex = Len(p.Cells) - 1

AtBeginning(p) == Valid(p) /\ p.CurrentIndex = 0

NextPath ==
    \/ \E s \in Cells(Data), d \in Cells(Data), diag \in BOOLEAN : GetPathCall(s, d, diag)
    \/ GetPathStep
    \/ Release
    \/ PathCurrent
    \/ PathNext
    \/ PathPrev
    \/ PathRestart
    \/ PathReverse

SpecPath == InitCursor /\ [][NextPath]_vars

(***************************************************************************)
(* The host between calls: it edits cells, keeps a Path, compares the Path *)
(* of a new call with the one it kept, and asks for a Path's cost          *)
(***************************************************************************)
\* the loop of Same from index i on
RECURSIVE SameFrom(_, _, _)
SameFrom(p, q, i) ==
    IF i >= Len(p.Cells) THEN TRUE
    ELSE IF Len(q.Cells) <= i \/ Index(p.Cells, i) # Index(q.Cells, i) THEN FALSE
    ELSE SameFrom(p, q, i + 1)

\* mutant: Same returns after the comparison of the lengths
SameLengths(p, q) == Len(p.Cells) = Len(q.Cells)

\* func (p *Path) Same(otherPath *Path) bool
Same(p, q) ==
    IF Len(p.Cells) # Len(q.Cells) THEN FALSE ELSE SameFrom(p, q, 0)

\* newPath.Same(pd.Path), pd.Path being a Path of an earlier call
PathSame ==
    /\ pc = "done"
    /\ otherCall # NoCall
    /\ same' = Same(path, otherPath)
    /\ UNCHANGED <<Data, pc, start, dest, diagonals, openNodes, checkedNodes, path, ret,
                   stableSort, wallsBlockDiagonals, otherPath, otherCall, totalCost>>

\* pd.Path = newPath: the host keeps the Path of the call that returned,
\* in place of the one it held; the search's locals are gone
KeepPath ==
    /\ pc = "done"
    /\ otherPath' = path
    /\ otherCall' = [start |-> start, dest |-> dest, diagonals |-> diagonals, Data |-> Data]
    /\ pc' = "idle"
    /\ start' = NilCell
    /\ dest' = NilCell
    /\ diagonals' = FALSE
    /\ openNodes' = <<>>
    /\ checkedNodes' = {}
    /\ path' = EmptyPath
    /\ ret' = NilCell
    /\ UNCHANGED <<Data, stableSort, wallsBlockDiagonals, same, totalCost>>

\* cell.Walkable = b, between two calls
SetWalkable(c, b) ==
    /\ pc = "idle"
    /\ Data' = [Data EXCEPT ![c[2] + 1][c[1] + 1].Walkable = b]
    /\ Cardinality({a \in Cells(Data) : ~Deref(Data', a).Walkable}) <= HostWalls
    /\ UNCHANGED <<pc, start, dest, diagonals, openNodes, checkedNodes, path, ret,
                   stableSort, wallsBlockDiagonals>>
    /\ UNCHANGED hostVars

\* cell.Cost = n, between two calls or while the host holds the Path of the last
SetCost(c, n) ==
    /\ pc \in {"idle", "done"}
    /\ Data' = [Data EXCEPT ![c[2] + 1][c[1] + 1].Cost = n]
    /\ Cardinality({a \in Cells(Data) : Deref(Data', a).Cost # NewCell(0, 0).Cost}) <= MaxCostly
    /\ UNCHANGED <<pc, start, dest, diagonals, openNodes, checkedNodes, path, ret,
                   stableSort, wallsBlockDiagonals>>
    /\ UNCHANGED hostVars

\* p.TotalCost() on the Path of the last call
PathTotalCost ==
    /\ pc = "done"
    /\ totalCost' = TotalCost(Data, path)
    /\ UNCHANGED <<Data, pc, start, dest, diagonals, openNodes, checkedNodes, path, ret,
                   stableSort, wallsBlockDiagonals, otherPath, otherCall, same>>

\* the grids as NewGrid leaves them, of at most HostArea cells
HostDims == {d \in (1..HostDim) \X (1..HostDim) : d[1] * d[2] <= HostArea}

\* sort.Slice sorts a slice of fewer than 12 elements by insertion, which
\* keeps equal-cost nodes in order: openNodes is never longer on these grids
InitAgain ==
    /\ Data \in {NewGrid(d[1], d[2]) : d \in HostDims}
    /\ stableSort = TRUE
    /\ Idle

NextAgain ==
    \/ \E s \in Cells(Data), d \in Cells(Data), diag \in BOOLEAN : GetPathCall(s, d, diag)
    \/ GetPathStep
    \/ Release
    \/ KeepPath
    \/ \E c \in Cells(Data), b \in BOOLEAN : SetWalkable(c, b)
    \/ PathNext
    \/ PathPrev
    \/ PathRestart
    \/ PathSame

SpecAgain == InitAgain /\ [][NextAgain]_vars

InitEdit ==
    /\ Data \in {NewGrid(d[1], d[2]) : d \in HostDims}
    /\ stableSort = FALSE
    /\ Idle

NextEdit ==
    \/ \E s \in Cells(Data), d \in Cells(Data), diag \in BOOLEAN : GetPathCall(s, d, diag)
    \/ GetPathStep
    \/ Release
    \/ \E c \in Cells(Data), n \in 1..HostCost : SetCost(c, n)
    \/ PathTotalCost

SpecEdit == InitEdit /\ [][NextEdit]_vars

(***************************************************************************)
(* Get, called on the grid of any NewGrid(width, height)                   *)
(***************************************************************************)
\* Width evaluates m.Data[0]: a run-time panic when the grid has no row
WidthPanics(data) == Height(data) = 0

\* "x < 0 || y < 0 || x >= m.Width() || ...": Width is called when the two
\* tests before it are false
GetPanics(data, x, y) == ~(x < 0 \/ y < 0) /\ WidthPanics(data)

\* m.Get(x, y), called by the host
GridGet(x, y) ==
    /\ pc = "idle"
    /\ IF GetPanics(Data, x, y)
       THEN pc' = "panic" /\ ret' = NilCell
       ELSE pc' = pc /\ ret' = Get(Data, x, y)
    /\ UNCHANGED <<Data, start, dest, diagonals, openNodes, checkedNodes, path,
                   stableSort, wallsBlockDiagonals>>
    /\ UNCHANGED hostVars

\* NewGrid runs its loops for any two integers; 0 or less gives no row, or
\* rows of no cell
InitGet ==
    /\ Data \in {NewGrid(w, h) : w \in 0..GetDim, h \in 0..GetDim}
    /\ stableSort = FALSE
    /\ Idle

NextGet == \E x \in -1..GetDim, y \in -1..GetDim : GridGet(x, y)

SpecGet == InitGet /\ [][NextGet]_vars

(***************************************************************************)
(* A call of GetPath run to its end: GetPath is one sequential function,   *)
(* its for loop makes its next iteration as long as it has not returned.   *)
(***************************************************************************)
InitLive ==
    /\ Data \in {g \in Grids(HostDims) :
                    \A c \in Cells(g) : Deref(g, c).Cost <= HostCost}
    /\ stableSort = FALSE
    /\ Idle

SpecLive == InitLive /\ [][Next]_vars /\ WF_vars(GetPathStep)

(***************************************************************************)
(* What the claims speak of, defined on the grid alone                     *)
(***************************************************************************)
Abs(n) == IF n < 0 THEN -n ELSE n

Returned == pc = "done"

IsWalkable(c) == Deref(Data, c).Walkable

\* b is a grid neighbour of a: orthogonal, or diagonal when diag allows it
Adjacent(a, b, diag) ==
    LET dx == Abs(a[1] - b[1])
        dy == Abs(a[2] - b[2])
    IN \/ dx + dy = 1
       \/ diag /\ dx = 1 /\ dy = 1

\* the cells a chain of walkable neighbours links to a cell of S
RECURSIVE Linked(_, _)
Linked(S, diag) ==
    LET more == {c \in Cells(Data) :
                    IsWalkable(c) /\ \E a \in S : Adjacent(a, c, diag)}
    IN IF more \subseteq S THEN S ELSE Linked(S \cup more, diag)

\* the sums of cell Costs of the chains of walkable neighbouring cells that
\* lead from c to dest without entering a cell of seen or a cell twice
RECURSIVE ChainCosts(_, _)
ChainCosts(c, seen) ==
    IF ~IsWalkable(c) THEN {}
    ELSE IF c = dest THEN {Deref(Data, c).Cost}
    ELSE UNION {{Deref(Data, c).Cost + k : k \in ChainCosts(a, seen \cup {c})} :
                  a \in {b \in Cells(Data) \ seen :
                            b # c /\ Adjacent(c, b, diagonals)}}

\* the sum of the Cost that the cells of a sequence have now, each cell
\* counted as often as it occurs
RECURSIVE SumAt(_, _)
SumAt(cells, I) ==
    IF I = {} THEN 0
    ELSE LET i == CHOOSE j \in I : TRUE
         IN Deref(Data, cells[i]).Cost + SumAt(cells, I \ {i})

CostNow(cells) == SumAt(cells, DOMAIN cells)

\* two grids of the same size whose cells agree in Cost and Walkable
SameCostWalkable(d1, d2) ==
    /\ Len(d1) = Len(d2)
    /\ \A y \in 1..Len(d1) :
          /\ Len(d1[y]) = Len(d2[y])
          /\ \A x \in 1..Len(d1[y]) :
                /\ d1[y][x].Cost = d2[y][x].Cost
                /\ d1[y][x].Walkable = d2[y][x].Walkable

\* a node and the nodes up its Parent pointers
RECURSIVE Ancestors(_)
Ancestors(n) ==
    {n} \cup (IF n.Parent = <<>> THEN {} ELSE Ancestors(n.Parent[1]))

\* the nodes appended to openNodes so far that are still in it or still
\* pointed at from it
NodesEnqueued == UNION {Ancestors(openNodes[i]) : i \in 1..Len(openNodes)}

\* C1: GetPath returns a non-empty Path exactly when dest is walkable and a
\* chain of walkable neighbouring cells links start to dest; with every
\* neighbour of dest non-walkable and start # dest it returns the empty Path.
C1_PathIffLinked ==
    Returned =>
        /\ Valid(path) <=> (IsWalkable(dest) /\ start \in Linked({dest}, diagonals))
        /\ (/\ start # dest
            /\ \A c \in Cells(Data) : Adjacent(dest, c, diagonals) => ~IsWalkable(c))
           => ~Valid(path)

\* a search that ended empty because dest is walled in, start being walkable
C1_Witness ==
    /\ Returned /\ ~Valid(path) /\ diagonals
    /\ start # dest /\ IsWalkable(start) /\ IsWalkable(dest)
    /\ \A c \in Cells(Data) : Adjacent(dest, c, diagonals) => ~IsWalkable(c)

\* C2: the returned Path costs no more than any chain of walkable
\* neighbouring cells from start to dest (cell Costs being non-negative).
C2_LeastCost ==
    (Returned /\ Valid(path)) =>
        \A k \in ChainCosts(start, {}) : TotalCost(Data, path) <= k

\* a returned Path that has more cells than the straight route, on a grid
\* with no wall: it is the cheaper of the two
C2_Witness ==
    /\ Returned /\ Valid(path) /\ ~diagonals
    /\ \A c \in Cells(Data) : IsWalkable(c)
    /\ Len(path.Cells) > Abs(start[1] - dest[1]) + Abs(start[2] - dest[2]) + 1
    /\ \E k \in ChainCosts(start, {}) : TotalCost(Data, path) < k

\* C3: a non-empty returned Path begins at start and ends at dest.
C3_StartToDest ==
    (Returned /\ Valid(path)) =>
        /\ path.Cells[1] = start
        /\ path.Cells[Len(path.Cells)] = dest

C3_Witness ==
    /\ Returned /\ Len(path.Cells) >= 3
    /\ path.Cells[1] = start /\ path.Cells[Len(path.Cells)] = dest

\* C4: no cell of a returned Path is non-walkable.
C4_OnlyWalkable ==
    Returned => \A i \in 1..Len(path.Cells) : IsWalkable(path.Cells[i])

\* a returned Path that went around a non-walkable cell lying between its ends
C4_Witness ==
    /\ Returned /\ Len(path.Cells) >= 5
    /\ \E c \in Cells(Data) : ~IsWalkable(c) /\ Adjacent(c, start, FALSE)

\* C5: two consecutive cells of a returned Path are grid neighbours, and
\* orthogonal ones when diagonals is false.
C5_NeighbourSteps ==
    Returned =>
        \A i \in 1..(Len(path.Cells) - 1) :
            LET dx == Abs(path.Cells[i][1] - path.Cells[i + 1][1])
                dy == Abs(path.Cells[i][2] - path.Cells[i + 1][2])
            IN IF diagonals
               THEN dx <= 1 /\ dy <= 1 /\ path.Cells[i] # path.Cells[i + 1]
               ELSE (dx = 1 /\ dy = 0) \/ (dx = 0 /\ dy = 1)

\* a Path found with diagonals off between two cells that are diagonal neighbours
C5_Witness ==
    /\ Returned /\ ~diagonals /\ Len(path.Cells) = 3
    /\ Abs(start[1] - dest[1]) = 1 /\ Abs(start[2] - dest[2]) = 1

\* C6: with start or dest non-walkable, GetPath returns the empty Path.
C6_BlockedEnds ==
    (Returned /\ (~IsWalkable(start) \/ ~IsWalkable(dest))) => ~Valid(path)

\* start non-walkable next to a walkable dest: only the neighbour filter stops it
C6_Witness ==
    /\ Returned /\ ~IsWalkable(start) /\ IsWalkable(dest)
    /\ Adjacent(start, dest, FALSE) /\ ~Valid(path)

\* C7: with start = dest walkable, GetPath returns the one-cell Path of it.
C7_SameCell ==
    (Returned /\ start = dest /\ IsWalkable(start)) => path.Cells = <<start>>

C7_Witness ==
    /\ Returned /\ start = dest /\ IsWalkable(start) /\ path.Cells = <<start>>
    /\ \E c \in Cells(Data) : Adjacent(c, start, TRUE) /\ IsWalkable(c)

C9_FewestCells ==
    (Returned /\ \A c \in Cells(Data) : IsWalkable(c) /\ Deref(Data, c).Cost = 1) =>
        LET dx == Abs(start[1] - dest[1])
            dy == Abs(start[2] - dest[2])
        IN IF diagonals
           THEN Len(path.Cells) = (IF dx > dy THEN dx ELSE dy) + 1
           ELSE /\ Len(path.Cells) = dx + dy + 1
                /\ TotalCost(Data, path) = dx + dy + 1

\* the 5x5 grid, corner to corner, diagonals off: 9 cells, cost 9
C9_Witness ==
    /\ Returned /\ ~diagonals
    /\ Width(Data) = 5 /\ Height(Data) = 5
    /\ start = <<0, 0>> /\ dest = <<4, 4>>
    /\ Len(path.Cells) = 9 /\ TotalCost(Data, path) = 9

\* the same corners with diagonals on: 5 cells
C9_WitnessDiagonal ==
    /\ Returned /\ diagonals
    /\ Width(Data) = 5 /\ Height(Data) = 5
    /\ start = <<0, 0>> /\ dest = <<4, 4>>
    /\ Len(path.Cells) = 5

\* C10: Current(), Next() and Prev(), called in any order on any Path that
\* GetPath returned, the empty Path included, never crash.
C10_CursorNeverPanics == pc # "panic"

\* C11: on a non-empty Path, after every call of Restart, Next, Prev or
\* Reverse the cursor is an index of Cells, 0 <= CurrentIndex <= len(Cells)-1,
\* and Next called with the cursor on the last index leaves it there.
C11_CursorInRange ==
    [][(Valid(path) /\ (PathRestart \/ PathNext \/ PathPrev \/ PathReverse)) =>
          /\ 0 <= path'.CurrentIndex
          /\ path'.CurrentIndex <= Len(path'.Cells) - 1
          /\ (PathNext /\ AtEnd(path)) => AtEnd(path')]_vars

\* a reversed Path of three or more cells whose cursor Next has brought to
\* the last index
C11_Witness ==
    /\ Returned /\ Len(path.Cells) >= 3
    /\ path.Cells[1] = dest /\ start # dest
    /\ AtEnd(path) /\ ret = start

C13_SameIffSameCells ==
    [][PathSame =>
          (same' <=> /\ Len(path.Cells) = Len(otherPath.Cells)
                     /\ \A i \in 1..Len(path.Cells) :
                            path.Cells[i] = otherPath.Cells[i])]_vars

\* Same has returned true for two Paths of three cells whose cursors differ
C13_Witness ==
    /\ Returned /\ same /\ Len(path.Cells) = 3
    /\ path.Cells = otherPath.Cells
    /\ path.CurrentIndex # otherPath.CurrentIndex

\* two Paths of the same length that differ in the middle cell only
C13_WitnessDiffer ==
    /\ Returned /\ ~same /\ otherCall # NoCall
    /\ Len(path.Cells) = 3 /\ Len(otherPath.Cells) = 3
    /\ path.Cells[1] = otherPath.Cells[1] /\ path.Cells[3] = otherPath.Cells[3]
    /\ path.Cells[2] # otherPath.Cells[2]

\* C14: one Reverse puts the cell of index i at index len-1-i, and a second
\* Reverse gives back the sequence of before the two calls, on the empty
\* Path, a Path of one cell and longer ones.
C14_ReverseTwice ==
    [][PathReverse =>
          /\ Len(path'.Cells) = Len(path.Cells)
          /\ \A i \in 0..(Len(path.Cells) - 1) :
                Index(path'.Cells, Len(path.Cells) - 1 - i) = Index(path.Cells, i)
          /\ ReverseCells(path'.Cells, Len(path'.Cells) - 1) = path.Cells]_vars

\* a Path of three or more cells in reversed order, dest first
C14_Witness ==
    /\ Returned /\ Len(path.Cells) >= 3 /\ start # dest
    /\ Index(path.Cells, 0) = dest
    /\ Index(path.Cells, Len(path.Cells) - 1) = start

\* C15: Reverse leaves CurrentIndex as it was, and the X, Y, Cost and
\* Walkable of every Cell.
C15_ReverseKeepsCursor ==
    [][PathReverse =>
          /\ path'.CurrentIndex = path.CurrentIndex
          /\ \A c \in Cells(Data) :
                /\ Deref(Data', c).X = Deref(Data, c).X
                /\ Deref(Data', c).Y = Deref(Data, c).Y
                /\ Deref(Data', c).Cost = Deref(Data, c).Cost
                /\ Deref(Data', c).Walkable = Deref(Data, c).Walkable]_vars

\* a reversed Path whose cursor is neither at 0 nor at the last index
C15_Witness ==
    /\ Returned /\ Len(path.Cells) >= 3 /\ start # dest
    /\ Index(path.Cells, 0) = dest
    /\ path.CurrentIndex > 0 /\ ~AtEnd(path)

\* C16: TotalCost returns the sum of the Cost that the cells of p.Cells have
\* when it is called, whatever Cost edits the host made since the search,
\* and 0 for the empty Path.
C16_TotalCostIsCurrent ==
    [][PathTotalCost =>
          /\ totalCost' = CostNow(path.Cells)
          /\ ~Valid(path) => totalCost' = 0]_vars

\* TotalCost has run on a returned Path that a cheaper chain now beats: a
\* Cost on it was raised after the search
C16_Witness ==
    /\ Returned /\ Valid(path) /\ totalCost = CostNow(path.Cells)
    /\ \A c \in Cells(Data) : IsWalkable(c)
    /\ \E k \in ChainCosts(start, {}) : k < totalCost

\* C17: no step of GetPath changes a Cell or the size of the grid: X, Y,
\* Cost, Walkable and Character of every cell, Width and Height are after
\* the call what they were before it, a Path found or not.
C17_SearchKeepsGrid ==
    [][(pc = "search" \/ pc' = "search" \/ (pc = "idle" /\ pc' = "done")) =>
          /\ Height(Data') = Height(Data)
          /\ Width(Data') = Width(Data)
          /\ \A c \in Cells(Data) :
                /\ Deref(Data', c).X = Deref(Data, c).X
                /\ Deref(Data', c).Y = Deref(Data, c).Y
                /\ Deref(Data', c).Cost = Deref(Data, c).Cost
                /\ Deref(Data', c).Walkable = Deref(Data, c).Walkable
                /\ Deref(Data', c).Character = Deref(Data, c).Character]_vars

\* a search has returned a Path of three cells, on a grid where the host
\* has changed a Cost
C17_Witness ==
    /\ Returned /\ Len(path.Cells) = 3
    /\ \E c \in Cells(Data) : Deref(Data, c).Cost # NewCell(0, 0).Cost
    /\ \A c \in Cells(Data) : Deref(Data, c).Character = " "

\* C18: on the grid of any NewGrid(width, height), Get(x, y) never fails; it
\* returns nil exactly when x < 0, y < 0, x >= width or y >= height, and
\* otherwise the Cell whose X and Y are x and y.
C18_GetTotal ==
    [][\A x \in -1..GetDim, y \in -1..GetDim :
          GridGet(x, y) =>
              /\ pc' # "panic"
              /\ ret' = NilCell <=>
                    (x < 0 \/ y < 0 \/ x >= Len(Data[1]) \/ y >= Len(Data))
              /\ ret' # NilCell =>
                    (Deref(Data, ret').X = x /\ Deref(Data, ret').Y = y)]_vars

\* C19: a GetPath call with the start, dest and diagonals of an earlier call,
\* on a grid whose cells have the Cost and Walkable they had at that call,
\* returns a Path for which Same with the earlier Path is true, whatever
\* searches, edits since undone and cursor calls came between the two.
C19_SameCallSamePath ==
    (/\ Returned
     /\ otherCall.start = start /\ otherCall.dest = dest
     /\ otherCall.diagonals = diagonals
     /\ SameCostWalkable(otherCall.Data, Data))
        => Same(path, otherPath)

\* the second of two equal calls has returned, between diagonal neighbours
\* with diagonals off on a grid with no wall: two routes cost the same, and
\* both calls took the same one; the cursors of the two Paths differ
C19_Witness ==
    /\ Returned /\ ~diagonals
    /\ otherCall.start = start /\ otherCall.dest = dest
    /\ otherCall.diagonals = diagonals
    /\ SameCostWalkable(otherCall.Data, Data)
    /\ \A c \in Cells(Data) : IsWalkable(c)
    /\ Abs(start[1] - dest[1]) = 1 /\ Abs(start[2] - dest[2]) = 1
    /\ Len(path.Cells) = 3 /\ path.Cells = otherPath.Cells
    /\ path.CurrentIndex # otherPath.CurrentIndex

\* C20: during one GetPath call no two nodes appended to openNodes wrap the
\* same Cell, dest included.
C20_EnqueuedOnce ==
    \A a \in NodesEnqueued : \A b \in NodesEnqueued : a.Cell = b.Cell => a = b

\* C21: at every iteration of the loop the node GetPath pops, openNodes[0],
\* has a Cost less than or equal to that of every node in openNodes.
C21_PopsLowestCost ==
    pc = "search" =>
        \A i \in 1..Len(openNodes) : openNodes[1].Cost <= openNodes[i].Cost

\* the node about to be popped was appended in a later iteration than a
\* node of higher Cost behind it: the sort has moved it to the front
C21_Witness ==
    /\ pc = "search" /\ Len(openNodes) >= 3
    /\ openNodes[1].Parent # <<>> /\ openNodes[1].Parent[1].Parent # <<>>
    /\ \E i \in 2..Len(openNodes) :
          /\ openNodes[i].Parent # <<>> /\ openNodes[i].Parent[1].Parent = <<>>
          /\ openNodes[1].Cost < openNodes[i].Cost

\* the step from the cell of a node's Parent to the cell of the node is diagonal
DiagonalChild(n) ==
    /\ n.Cell[1] # n.Parent[1].Cell[1]
    /\ n.Cell[2] # n.Parent[1].Cell[2]

LoopMeasure ==
    2 * (Cardinality(Cells(Data)) - Cardinality(checkedNodes)) + Len(openNodes)

\* C23: a call of GetPath runs to its end.  Every iteration of the loop that
\* does not return leaves strictly less for the loop to do, of a measure
\* that is never negative; the Parent chain of every node in openNodes ends
\* at the root node, the node of dest that has no Parent; and a call that
\* has entered the loop returns.
C23_Terminates ==
    /\ [][(pc = "search" /\ pc' = "search") =>
             (LoopMeasure' < LoopMeasure /\ LoopMeasure' >= 0)]_vars
    /\ [](pc = "search" =>
             \A i \in 1..Len(openNodes) :
                 \E r \in Ancestors(openNodes[i]) :
                     r.Parent = <<>> /\ r = RootNode(Data, dest))
    /\ ((pc = "search") ~> (pc = "done"))

\* the loop has ended because openNodes ran empty, after it had popped the
\* nodes of several cells without meeting start
C23_Witness ==
    /\ pc = "done" /\ Len(openNodes) = 0 /\ ~Valid(path)
    /\ Deref(Data, dest).Walkable
    /\ Cardinality(checkedNodes) >= 2

\* C24: no Path that GetPath returns holds the same cell twice, and dest is
\* in it as the last cell only, although the call puts no dest in
\* checkedNodes when it puts the root node in openNodes.
C24_NoCellTwice ==
    Returned =>
        /\ \A i \in 1..Len(path.Cells), j \in 1..Len(path.Cells) :
               path.Cells[i] = path.Cells[j] => i = j
        /\ \A i \in 1..Len(path.Cells) :
               path.Cells[i] = dest => i = Len(path.Cells)

\* a Path of three cells or more was returned by a search that had appended
\* a second node of dest, the cell of the root node
C24_Witness ==
    /\ Returned /\ Len(path.Cells) >= 3
    /\ dest \in checkedNodes

\* C25: when GetPath finds a path, the Cost of the node it stops at, the
\* node of start it has just popped, is TotalCost() of the Path it returns,
\* on the grid as the search left it: the sum of the Cost of every cell of
\* the Path, that of dest counted once.
C25_StopCostIsTotalCost ==
    [][(pc = "search" /\ pc' = "done" /\ Valid(path')) =>
          /\ ReachedStart(openNodes[1], start)
          /\ openNodes[1].Cost = TotalCost(Data', path')
          /\ openNodes[1].Cost = CostNow(path'.Cells)]_vars

\* a Path of three cells or more was returned that crosses a cell whose
\* Cost was edited to more than 1
C25_Witness ==
    /\ Returned /\ Len(path.Cells) >= 3
    /\ TotalCost(Data, path) > Len(path.Cells)
    /\ \E i \in 2..(Len(path.Cells) - 1) : Deref(Data, path.Cells[i]).Cost > 1

\* C26: stepping through a non-empty Path.  Restart() puts the cursor on
\* index 0, where AtBeginning() is true.  Next() called with the cursor on
\* index i short of the last moves it to i + 1 and returns Cells[i + 1], and
\* AtEnd() is true after the call exactly when i + 1 is the last index: so
\* from Restart() AtEnd() becomes true after len(Cells) - 1 calls of Next()
\* and not before.  Next() called with AtEnd() true leaves CurrentIndex as it
\* is and AtEnd() true.
C26_SteppingReachesEnd ==
    [][Valid(path) =>
          /\ PathRestart => (AtBeginning(path') /\ path'.CurrentIndex = 0)
          /\ (PathNext /\ ~AtEnd(path)) =>
                /\ path'.CurrentIndex = path.CurrentIndex + 1
                /\ ret' = Index(path.Cells, path.CurrentIndex + 1)
                /\ AtEnd(path') <=> (path.CurrentIndex + 1 = Len(path.Cells) - 1)
          /\ (PathNext /\ AtEnd(path)) =>
                /\ path'.CurrentIndex = path.CurrentIndex
                /\ AtEnd(path')]_vars

\* a Path of three or more cells, in the order GetPath gave it, whose cursor
\* Next has brought to the last index, returning dest
C26_Witness ==
    /\ Returned /\ Len(path.Cells) >= 3
    /\ path.Cells[1] = start /\ start # dest
    /\ AtEnd(path) /\ ~AtBeginning(path) /\ ret = dest

====
